---- MODULE Spec2Model ----
(***************************************************************************)
(* Analysis.py: the Monte Carlo simulation of a building purchase.         *)
(*                                                                         *)
(* Numbers.  The program computes in floating point.  Here money is held   *)
(* in whole units and every rate (a percentage, an interest rate, an IRR)  *)
(* in units of 1/RATE; a product or quotient is rounded to the nearest     *)
(* unit, as the float operation rounds to the nearest float.  The float    *)
(* value nan is held as the reserved value NaN and an infinity as Inf,     *)
(* which no quantity of the model reaches; the operators Add, Sub, Mul,    *)
(* Abs, Lt, Gt and Ge treat nan as IEEE arithmetic does (nan in, nan out;  *)
(* every comparison false).                                                *)
(***************************************************************************)
EXTENDS Integers, Sequences, FiniteSets

\* ------------------------------------------------------------- bounds
\* Trials per price.  The program runs 1000 (Analysis.py line 19); the
\* model runs this many.
total_simulations == 2
\* The simulated horizon `years` ranges over 0 .. MaxYears.
MaxYears == 2

\* ------------------------------------------------------------- numbers
RATE == 100 * 100
NaN == 0 - (1024 * 1024 * 1024)
Inf == 1024 * 1024 * 1024

IsNaN(x) == x = NaN
IsInf(x) == x = Inf \/ x = 0 - Inf

\* a / b rounded to the nearest integer, b > 0
Round(a, b) == (a \div b) + (IF 2 * (a % b) >= b THEN 1 ELSE 0)

Abs(x) == IF IsNaN(x) THEN NaN ELSE IF x < 0 THEN 0 - x ELSE x
Add(x, y) == IF IsNaN(x) \/ IsNaN(y) THEN NaN ELSE x + y
Sub(x, y) == IF IsNaN(x) \/ IsNaN(y) THEN NaN ELSE x - y
\* x * (k / den): the product of x by the fixed-point factor k
Mul(x, k, den) == IF IsNaN(x) \/ IsNaN(k) THEN NaN ELSE Round(x * k, den)
Lt(x, y) == ~IsNaN(x) /\ ~IsNaN(y) /\ x < y
Gt(x, y) == ~IsNaN(x) /\ ~IsNaN(y) /\ x > y
Ge(x, y) == ~IsNaN(x) /\ ~IsNaN(y) /\ x >= y

\* base ** n for a fixed-point base (in 1/RATE), by rounded products
\* (square and multiply)
RECURSIVE Pow(_, _)
Pow(base, n) ==
    IF n = 0 THEN RATE
    ELSE IF n % 2 = 0
         THEN LET half == Pow(base, n \div 2) IN Round(half * half, RATE)
         ELSE Round(Pow(base, n - 1) * base, RATE)

\* ------------------------------------------------ calculate_mortgage
\* The outcomes of the float division num / den.  A zero divisor raises
\* ZeroDivisionError on Python floats and yields nan (with a warning) when
\* an operand is a numpy scalar, as purchase_price is in update_plots.
DivOutcomes(num, den) ==
    IF den = 0 THEN {[raises |-> TRUE, value |-> 0], [raises |-> FALSE, value |-> NaN]}
    ELSE {[raises |-> FALSE, value |-> Round(num, den)]}

MonthsPerYear == 12
DefaultMortgageYears == 30

\* The set of outcomes of calculate_mortgage(principal, annual_interest_rate, years)
calculate_mortgage(principal, annual_interest_rate, term) ==
    LET monthly_interest_rate == Round(annual_interest_rate, MonthsPerYear)
        num_payments == term * MonthsPerYear
        growth == Pow(RATE + monthly_interest_rate, num_payments)
    IN  DivOutcomes(principal * Round(monthly_interest_rate * growth, RATE),
                    growth - RATE)

\* ------------------------------------------------------------- state
VARIABLES
    args,                   \* the arguments of run_simulations_with_savings_check
    pc,                     \* the position in the function
    sim,                    \* the trials completed (iterations of the loop of line 28)
    favorable_outcomes,
    irrs,
    count_irr_above_target,
    totals,                 \* the ten accumulators of lines 24-26
    trial,                  \* the sampled scenario and the initial calculations
    year,                   \* the years simulated of the current trial
    annual_cash_flow,
    cash_flows,
    debt,
    irr,                    \* the outcome of npf.irr(cash_flows)
    result,                 \* the returned tuple: <<>> until the function returns
    call                    \* a direct call of calculate_mortgage and what it returned

vars == <<args, pc, sim, favorable_outcomes, irrs, count_irr_above_target, totals,
          trial, year, annual_cash_flow, cash_flows, debt, irr, result, call>>

simVars == <<args, pc, sim, favorable_outcomes, irrs, count_irr_above_target, totals,
             trial, year, annual_cash_flow, cash_flows, debt, irr, result>>

\* ------------------------------------------------------------- sampling
\* np.random.uniform(lo, hi) is lo + (hi - lo) * u with u in [0, 1), and does
\* not compare lo with hi.  The model draws u from 0, 1/2 and 1.
Uniform(range) ==
    {range[1], range[1] + ((range[2] - range[1]) \div 2), range[2]}

\* The ranges of the model.  The sliders of interactive_inputs offer more.
\* With the loan of 80000 at 7.2% the annual mortgage payment is 6528: the
\* incomes, expenses and inflation rates below give years of shortfall, of
\* surplus below, at and above the debt, and of a net flow of exactly 0.
Point(x) == <<x, x>>

Arguments ==
    {a \in [purchase_price : {100000},
           savings : {20000, 30000},
           annual_base_income_range : {<<8300, 8900>>, <<8900, 8300>>},
           annual_base_expense_range : {Point(2000), Point(1072)},
           down_payment_percentage : {2000},
           interest_rate_range : {Point(720), Point(0)},
           closing_cost_percentage_range : {Point(500)},
           additional_upfront_costs_range : {Point(0)},
           additional_annual_income_range : {Point(0)},
           additional_annual_costs_range : {Point(1000)},
           property_growth_rate_range : {Point(300)},
           inflation_rate_range : {Point(1000), Point(0)},
           years : 0 .. MaxYears,
           target_irr : {650}] :
        \* the reversed income range is tried with one choice of the rest
        a.annual_base_income_range[1] > a.annual_base_income_range[2]
            => /\ a.savings = 30000
               /\ a.interest_rate_range = Point(720)
               /\ a.annual_base_expense_range = Point(2000)
               /\ a.inflation_rate_range = Point(1000)}

HasInvalidRange(a) ==
    \E r \in {a.annual_base_income_range, a.annual_base_expense_range,
              a.interest_rate_range, a.closing_cost_percentage_range,
              a.additional_upfront_costs_range, a.additional_annual_income_range,
              a.additional_annual_costs_range, a.property_growth_rate_range,
              a.inflation_rate_range} : r[1] > r[2]

\* ------------------------------------------------------------- one year
\* line 71
AnnualCashFlow(income, extra_income, expense, annual_mortgage_payment, extra_costs) ==
    Sub(Sub(income + extra_income - expense, annual_mortgage_payment), extra_costs)

DEBT_INTEREST == 11000

\* DebtAfter without the comparison of line 79: a surplus is always
\* subtracted from the debt
MutDebtAfter(d, flow) ==
    IF Lt(flow, 0) THEN Mul(Add(d, Abs(flow)), DEBT_INTEREST, RATE)
    ELSE Sub(d, flow)

\* lines 74-84: the rollover debt after a year whose net flow is flow
DebtAfter(d, flow) ==
    IF Lt(flow, 0) THEN Mul(Add(d, Abs(flow)), DEBT_INTEREST, RATE)
    ELSE IF Gt(flow, d) THEN 0
    ELSE Sub(d, flow)

\* RecordedFlow with a shortfall recorded as 0
MutRecordedFlowZeroed(d, flow) ==
    IF Lt(flow, 0) THEN 0
    ELSE IF Gt(flow, d) THEN Sub(flow, d)
    ELSE 0

\* RecordedFlow without line 84: a surplus that does not clear the debt is
\* still recorded
MutRecordedFlowKept(d, flow) ==
    IF Lt(flow, 0) THEN flow
    ELSE IF Gt(flow, d) THEN Sub(flow, d)
    ELSE flow

\* lines 74-86: the value the year appends to cash_flows
RecordedFlow(d, flow) ==
    IF Lt(flow, 0) THEN flow
    ELSE IF Gt(flow, d) THEN Sub(flow, d)
    ELSE 0

\* ------------------------------------------------------------- the sale
SALE_CLOSING_COST == 600

\* lines 101-103
FinalSalePrice(purchase_price, property_growth_rate, n) ==
    LET gross_sale_price == Mul(purchase_price, Pow(RATE + property_growth_rate, n), RATE)
        sale_closing_costs == Mul(gross_sale_price, SALE_CLOSING_COST, RATE)
    IN  gross_sale_price - sale_closing_costs

\* AddSaleProceeds appending the proceeds as an entry of their own
MutAddSaleProceeds(cf, final_sale_price) == Append(cf, final_sale_price)

\* line 104: cash_flows[-1] += final_sale_price
AddSaleProceeds(cf, final_sale_price) ==
    [cf EXCEPT ![Len(cf)] = @ + final_sale_price]

\* ------------------------------------------------------------- the IRR
\* npf.irr is a library call: it raises ValueError, or returns a float,
\* which is nan, an infinity or a finite rate.
IrrOutcomes ==
    {[raised |-> TRUE, value |-> 0]}
    \cup {[raised |-> FALSE, value |-> v] : v \in {NaN, Inf, 500, 800}}

NoIrr == [raised |-> FALSE, value |-> 0]

\* line 112: not np.isnan(irr) and not np.isinf(irr)
IsValidIrr(r) == ~IsNaN(r.value) /\ ~IsInf(r.value)

\* CountsAboveTarget without the test of line 112
MutCountsAboveTarget(r, target_irr) == Gt(r.value, target_irr)

\* lines 112-115: the IRR is counted above the target when it is valid and
\* exceeds it
CountsAboveTarget(r, target_irr) == IsValidIrr(r) /\ Gt(r.value, target_irr)

\* ------------------------------------------------------------- the result
RECURSIVE SumSeq(_)
SumSeq(s) == IF s = <<>> THEN 0 ELSE Head(s) + SumSeq(Tail(s))

PERCENT == 100

\* line 120, in 1/RATE of a percent
FavorablePercentage(favorable) ==
    Round(favorable * RATE, total_simulations) * PERCENT

\* line 121: None is the empty sequence, a mean is a sequence of one value
AverageIrr(valid) ==
    IF valid # <<>> THEN <<Round(SumSeq(valid), Len(valid))>> ELSE <<>>

\* line 122, in 1/RATE of a percent
PercentAboveTarget(count, valid) ==
    IF valid # <<>> THEN Round(count * RATE, Len(valid)) * PERCENT ELSE 0

\* lines 125-134
Mean(total) == IF IsNaN(total) THEN NaN ELSE Round(total, total_simulations)

ZeroTotals ==
    [total_down_payments |-> 0, total_closing_costs |-> 0,
     total_additional_upfront_costs |-> 0, total_net_upfront |-> 0,
     total_annual_mortgage_payments |-> 0, total_annual_base_expenses |-> 0,
     total_additional_annual_costs |-> 0, total_annual_base_incomes |-> 0,
     total_additional_annual_incomes |-> 0, total_net_annual_profit |-> 0]

NoTrial ==
    [income |-> 0, expense |-> 0, interest_rate |-> 0, closing_cost_percentage |-> 0,
     additional_upfront_costs |-> 0, additional_annual_income |-> 0,
     additional_annual_costs |-> 0, property_growth_rate |-> 0, inflation_rate |-> 0,
     down_payment |-> 0, loan_amount |-> 0, closing_costs |-> 0, initial_outlay |-> 0,
     annual_mortgage_payment |-> 0]

NoCall == [principal |-> 0, annual_interest_rate |-> 0, years |-> 0, returned |-> <<>>]

\* lines 18-26: the state as the loop of line 28 is first reached
Init ==
    /\ args \in Arguments
    /\ pc = "sample"
    /\ sim = 0
    /\ favorable_outcomes = 0
    /\ irrs = <<>>
    /\ count_irr_above_target = 0
    /\ totals = ZeroTotals
    /\ trial = NoTrial
    /\ year = 0
    /\ annual_cash_flow = 0
    /\ cash_flows = <<>>
    /\ debt = 0
    /\ irr = NoIrr
    /\ result = <<>>
    /\ call = NoCall

\* ------------------------------------------------------------- the trial loop
\* lines 28-61: the draws and the initial calculations of one trial.  The
\* call of calculate_mortgage at line 47 may raise, which ends the function.
SampleTrial ==
    /\ pc = "sample"
    /\ sim < total_simulations
    /\ \E income \in Uniform(args.annual_base_income_range),
          expense \in Uniform(args.annual_base_expense_range),
          interest_rate \in Uniform(args.interest_rate_range),
          closing_cost_percentage \in Uniform(args.closing_cost_percentage_range),
          additional_upfront_costs \in Uniform(args.additional_upfront_costs_range),
          additional_annual_income \in Uniform(args.additional_annual_income_range),
          additional_annual_costs \in Uniform(args.additional_annual_costs_range),
          property_growth_rate \in Uniform(args.property_growth_rate_range),
          inflation_rate \in Uniform(args.inflation_rate_range) :
        LET down_payment == Mul(args.purchase_price, args.down_payment_percentage, RATE)
            loan_amount == args.purchase_price - down_payment
            closing_costs == Mul(loan_amount, closing_cost_percentage, RATE)
            initial_outlay == down_payment + closing_costs + additional_upfront_costs
        IN  \E monthly_mortgage \in
                   calculate_mortgage(loan_amount, interest_rate, DefaultMortgageYears) :
              \/ /\ monthly_mortgage.raises
                 /\ pc' = "raised"
                 /\ UNCHANGED <<trial, year, annual_cash_flow, cash_flows, debt, irr>>
              \/ /\ ~monthly_mortgage.raises
                 /\ trial' =
                      [income |-> income, expense |-> expense,
                       interest_rate |-> interest_rate,
                       closing_cost_percentage |-> closing_cost_percentage,
                       additional_upfront_costs |-> additional_upfront_costs,
                       additional_annual_income |-> additional_annual_income,
                       additional_annual_costs |-> additional_annual_costs,
                       property_growth_rate |-> property_growth_rate,
                       inflation_rate |-> inflation_rate,
                       down_payment |-> down_payment, loan_amount |-> loan_amount,
                       closing_costs |-> closing_costs, initial_outlay |-> initial_outlay,
                       annual_mortgage_payment |->
                           Mul(monthly_mortgage.value, MonthsPerYear, 1)]
                 /\ annual_cash_flow' = 0
                 /\ cash_flows' = <<0 - initial_outlay>>
                 /\ debt' = 0
                 /\ year' = 0
                 /\ irr' = NoIrr
                 /\ pc' = "year"
    /\ UNCHANGED <<args, sim, favorable_outcomes, irrs, count_irr_above_target, totals,
                   result, call>>

\* lines 63-86: one year of the trial
SimulateYear ==
    /\ pc = "year"
    /\ year < args.years
    /\ LET inflation == RATE + trial.inflation_rate
           income == Mul(trial.income, inflation, RATE)
           expense == Mul(trial.expense, inflation, RATE)
           additional_annual_income == Mul(trial.additional_annual_income, inflation, RATE)
           additional_annual_costs == Mul(trial.additional_annual_costs, inflation, RATE)
           flow == AnnualCashFlow(income, additional_annual_income, expense,
                                  trial.annual_mortgage_payment, additional_annual_costs)
       IN  /\ trial' = [trial EXCEPT !.income = income, !.expense = expense,
                            !.additional_annual_income = additional_annual_income,
                            !.additional_annual_costs = additional_annual_costs]
           /\ debt' = DebtAfter(debt, flow)
           /\ annual_cash_flow' = RecordedFlow(debt, flow)
           /\ cash_flows' = Append(cash_flows, RecordedFlow(debt, flow))
    /\ year' = year + 1
    /\ UNCHANGED <<args, pc, sim, favorable_outcomes, irrs, count_irr_above_target,
                   totals, irr, result, call>>

\* lines 88-98
Accumulate(t, tr, savings, flow) ==
    [total_down_payments |-> t.total_down_payments + tr.down_payment,
     total_closing_costs |-> t.total_closing_costs + tr.closing_costs,
     total_additional_upfront_costs |->
         t.total_additional_upfront_costs + tr.additional_upfront_costs,
     total_net_upfront |-> t.total_net_upfront + (savings - tr.initial_outlay),
     total_annual_mortgage_payments |->
         Add(t.total_annual_mortgage_payments, tr.annual_mortgage_payment),
     total_annual_base_expenses |-> t.total_annual_base_expenses + tr.expense,
     total_additional_annual_costs |->
         t.total_additional_annual_costs + tr.additional_annual_costs,
     total_annual_base_incomes |-> t.total_annual_base_incomes + tr.income,
     total_additional_annual_incomes |->
         t.total_additional_annual_incomes + tr.additional_annual_income,
     total_net_annual_profit |-> Add(t.total_net_annual_profit, flow)]

\* lines 88-108: after the last year, the accumulators, the sale and the call
\* of npf.irr
CloseTrial ==
    /\ pc = "year"
    /\ year = args.years
    /\ totals' = Accumulate(totals, trial, args.savings, annual_cash_flow)
    /\ cash_flows' = AddSaleProceeds(cash_flows,
                        FinalSalePrice(args.purchase_price, trial.property_growth_rate,
                                       args.years))
    /\ irr' \in IrrOutcomes
    /\ pc' = "tally"
    /\ UNCHANGED <<args, sim, favorable_outcomes, irrs, count_irr_above_target, trial,
                   year, annual_cash_flow, debt, result, call>>

\* line 117
IsFavorable(flow) == Ge(flow, 0)

\* lines 109-118: `continue` on ValueError, else the IRR statistics and the
\* favorable count
Tally ==
    /\ pc = "tally"
    /\ IF irr.raised
       THEN UNCHANGED <<irrs, count_irr_above_target, favorable_outcomes>>
       ELSE /\ irrs' = IF IsValidIrr(irr) THEN Append(irrs, irr.value) ELSE irrs
            /\ count_irr_above_target' =
                 IF CountsAboveTarget(irr, args.target_irr)
                 THEN count_irr_above_target + 1 ELSE count_irr_above_target
            /\ favorable_outcomes' =
                 IF IsFavorable(annual_cash_flow)
                 THEN favorable_outcomes + 1 ELSE favorable_outcomes
    /\ sim' = sim + 1
    /\ pc' = "sample"
    /\ UNCHANGED <<args, totals, trial, year, annual_cash_flow, cash_flows, debt, irr,
                   result, call>>

\* lines 120-136
Return ==
    /\ pc = "sample"
    /\ sim = total_simulations
    /\ result' =
         <<[favorable_percentage |-> FavorablePercentage(favorable_outcomes),
            average_irr |-> AverageIrr(irrs),
            percent_above_target_irr |-> PercentAboveTarget(count_irr_above_target, irrs),
            mean_down_payment |-> Mean(totals.total_down_payments),
            mean_closing_costs |-> Mean(totals.total_closing_costs),
            mean_additional_upfront_costs |-> Mean(totals.total_additional_upfront_costs),
            mean_net_upfront |-> Mean(totals.total_net_upfront),
            mean_annual_mortgage_payment |-> Mean(totals.total_annual_mortgage_payments),
            mean_annual_base_expense |-> Mean(totals.total_annual_base_expenses),
            mean_additional_annual_costs |-> Mean(totals.total_additional_annual_costs),
            mean_annual_base_income |-> Mean(totals.total_annual_base_incomes),
            mean_additional_annual_income |-> Mean(totals.total_additional_annual_incomes),
            mean_net_annual_profit |-> Mean(totals.total_net_annual_profit)]>>
    /\ pc' = "done"
    /\ UNCHANGED <<args, sim, favorable_outcomes, irrs, count_irr_above_target, totals,
                   trial, year, annual_cash_flow, cash_flows, debt, irr, call>>

Next == SampleTrial \/ SimulateYear \/ CloseTrial \/ Tally \/ Return

Spec == Init /\ [][Next]_vars

\* ------------------------------------------- calculate_mortgage, called directly
Principals == {0, 40000, 60000, 80000, 100000, 120000}
InterestRates == {0, 360, 600, 720, 840}
Terms == {1, 10, 20, DefaultMortgageYears}

MortgageInit ==
    /\ call \in [principal : Principals, annual_interest_rate : InterestRates,
                 years : Terms, returned : {<<>>}]
    /\ args \in {a \in Arguments : a.years = 0 /\ a.savings = 30000 /\ ~HasInvalidRange(a)
                                   /\ a.interest_rate_range = Point(720)
                                   /\ a.annual_base_expense_range = Point(2000)
                                   /\ a.inflation_rate_range = Point(1000)}
    /\ pc = "sample"
    /\ sim = 0
    /\ favorable_outcomes = 0
    /\ irrs = <<>>
    /\ count_irr_above_target = 0
    /\ totals = ZeroTotals
    /\ trial = NoTrial
    /\ year = 0
    /\ annual_cash_flow = 0
    /\ cash_flows = <<>>
    /\ debt = 0
    /\ irr = NoIrr
    /\ result = <<>>

\* lines 10-14
CallMortgage ==
    /\ call.returned = <<>>
    /\ \E outcome \in calculate_mortgage(call.principal, call.annual_interest_rate,
                                          call.years) :
         call' = [call EXCEPT !.returned = <<outcome>>]
    /\ UNCHANGED simVars

MortgageNext == CallMortgage

MortgageSpec == MortgageInit /\ [][MortgageNext]_vars

\* ------------------------------------------------------------- the claims
\* a year of the trial loop has just been simulated
YearStep == pc = "year" /\ year' = year + 1

\* the trial's mortgage payment is a number (every net flow is then positive,
\* zero or negative)
NumericFlows == ~IsNaN(trial.annual_mortgage_payment)

\* C1: at every point of every trial the rollover debt is never negative, and
\* it is >= 0 whenever the annual net flows are positive, zero or negative
\* numbers.
C1_DebtNeverNegative ==
    /\ ~Lt(debt, 0)
    /\ NumericFlows => debt >= 0

\* a surplus year has paid down a part of the debt of a shortfall year
C1_Witness ==
    /\ pc = "year" /\ year = 2
    /\ cash_flows[2] < 0
    /\ annual_cash_flow = 0
    /\ Gt(debt, 0)

\* C2: a trial whose IRR computation raises adds nothing to irrs nor to
\* count_irr_above_target, keeps its values in the running sums, and is
\* counted as favorable when its final-year net flow is >= 0.
C2_RaisedIrrStillFavorable ==
    [][(pc = "tally" /\ irr.raised) =>
         /\ irrs' = irrs
         /\ count_irr_above_target' = count_irr_above_target
         /\ totals' = totals
         /\ Ge(annual_cash_flow, 0) => favorable_outcomes' = favorable_outcomes + 1]_vars

\* C3: calculate_mortgage with annual_interest_rate = 0 does not raise and
\* returns principal / (years * 12).
C3_ZeroRateMortgage ==
    (call.returned # <<>> /\ call.annual_interest_rate = 0) =>
        /\ ~call.returned[1].raises
        /\ call.returned[1].value = Round(call.principal, call.years * 12)

\* C4: a trial whose savings are less than its initial outlay is skipped: it
\* adds nothing to the running sums, to the IRR statistics or to the favorable
\* count.
C4_UnaffordableTrialSkipped ==
    [][(pc \in {"year", "tally"} /\ args.savings < trial.initial_outlay) =>
         /\ totals' = totals
         /\ irrs' = irrs
         /\ count_irr_above_target' = count_irr_above_target
         /\ favorable_outcomes' = favorable_outcomes]_vars

\* C5: at every point of the trial loop favorable_outcomes <= trials run and
\* count_irr_above_target <= valid IRRs recorded <= trials run; the returned
\* favorable percentage and percentage above target lie in [0, 100]; with no
\* valid IRR the percentage above target is 0 and the average IRR is None.
C5_PercentagesInRange ==
    /\ favorable_outcomes <= sim
    /\ count_irr_above_target <= Len(irrs)
    /\ Len(irrs) <= sim
    /\ result # <<>> =>
         /\ result[1].favorable_percentage >= 0
         /\ result[1].favorable_percentage <= 100 * RATE
         /\ result[1].percent_above_target_irr >= 0
         /\ result[1].percent_above_target_irr <= 100 * RATE
         /\ irrs = <<>> => /\ result[1].percent_above_target_irr = 0
                           /\ result[1].average_irr = <<>>

\* the function has returned with every trial favorable and no valid IRR
C5_Witness ==
    /\ pc = "done"
    /\ irrs = <<>>
    /\ favorable_outcomes = total_simulations
    /\ result[1].favorable_percentage = 100 * RATE

\* C6: cash_flows starts with the negated initial outlay, has k + 1 entries
\* after year k, and has years + 1 entries when it is handed to the IRR solver.
C6_CashFlowLength ==
    /\ pc = "year" => /\ Len(cash_flows) = year + 1
                      /\ cash_flows[1] = 0 - trial.initial_outlay
    /\ pc = "tally" => Len(cash_flows) = args.years + 1

\* the solver has been handed the cash flows of a trial of MaxYears years
C6_Witness ==
    /\ pc = "tally"
    /\ args.years = MaxYears
    /\ Len(cash_flows) = MaxYears + 1
    /\ cash_flows[Len(cash_flows)] > annual_cash_flow

\* C7: with a range whose lo > hi nothing is sampled, simulated or returned.
C7_InvalidRangeRejected ==
    HasInvalidRange(args) =>
        /\ pc \in {"sample", "raised"}
        /\ sim = 0
        /\ cash_flows = <<>>
        /\ result = <<>>

\* C8: a trial is counted as favorable exactly when its final-year net cash
\* flow after debt servicing is >= 0.
C8_FavorableByFinalYearOnly ==
    [][pc = "tally" =>
         (favorable_outcomes' = favorable_outcomes + 1 <=> Ge(annual_cash_flow, 0))]_vars

\* C9: for a year's net flow f and prior debt d >= 0: f < 0 gives debt
\* (d + |f|) * 1.10 and appends f; f >= 0 and f > d gives debt 0 and appends
\* f - d; f >= 0 and f <= d gives debt d - f, without interest, and appends 0.
C9_DebtUpdate ==
    [][YearStep =>
         LET f == trial'.income + trial'.additional_annual_income - trial'.expense
                  - trial'.annual_mortgage_payment - trial'.additional_annual_costs
             d == debt
             appended == cash_flows'[Len(cash_flows')]
         IN  (NumericFlows /\ d >= 0) =>
               /\ (f < 0) => (debt' = Round((d + (0 - f)) * 11, 10) /\ appended = f)
               /\ (f >= 0 /\ f > d) => (debt' = 0 /\ appended = f - d)
               /\ (f >= 0 /\ f <= d) => (debt' = d - f /\ appended = 0)
               /\ Len(cash_flows') = Len(cash_flows) + 1]_vars

\* a second shortfall year has compounded the debt of the first
C9_Witness ==
    /\ pc = "year" /\ year = 2
    /\ cash_flows[2] < 0
    /\ cash_flows[3] < 0
    /\ Gt(debt, Round((0 - cash_flows[3]) * 11, 10))

\* C10: after each year a strictly positive recorded net flow implies that the
\* rollover debt is 0, and a strictly negative one that it is strictly positive.
C10_SurplusOnlyWithoutDebt ==
    /\ Gt(annual_cash_flow, 0) => debt = 0
    /\ Lt(annual_cash_flow, 0) => Gt(debt, 0)

\* a surplus year has cleared the debt of a shortfall year and recorded the rest
C10_Witness ==
    /\ pc = "year" /\ year = 2
    /\ cash_flows[2] < 0
    /\ annual_cash_flow > 0
    /\ debt = 0

====
